---- MODULE Spec2Model ----
(***************************************************************************)
(* Model of scripts/bakta_api_runner.py: the Bakta job orchestration       *)
(* engine (BaktaJob, BaktaAPIClient as seen by its callers,                *)
(* BaktaAPIRunner.submit_job / monitor_job / run_batch /                   *)
(* generate_final_report).                                                 *)
(*                                                                         *)
(* The main thread runs run_batch; submit_job and monitor_job run as tasks *)
(* of a ThreadPoolExecutor.  A task takes one step per blocking gateway    *)
(* call (the code between two calls is executed with the call), so every   *)
(* interleaving of the tasks at their blocking points is explored.         *)
(* A file identifier is its position in list(parameters.keys()).           *)
(***************************************************************************)
EXTENDS Integers, Sequences, FiniteSets, TLC

\* ---------------------------------------------------------------- bounds
MaxFiles == 2        \* at most this many entries in the parameter set
MaxBatchFiles == 5   \* the same when every submission ends at its first line
MaxPolls == 2        \* polling rounds of the scaled wall-clock budget
MaxLen == 3          \* longest generated genus / species text

\* ------------------------------------------------------ program constants
check_interval == 30
\* The value monitor_job gives its local max_wait_time (line 417).
MaxWaitTime == 3600

\* Python's None for the string-valued fields of a BaktaJob.
None == "None"
\* Python's None for the datetime-valued fields (clock readings are >= 1).
NoTime == 0

\* An Input Parameter Entry, as far as the runner reads it:
\*   "full"      every field present, genus/species None or strings
\*   "no_fasta"  the entry lacks the key 'fasta_file'
\*   "bad_genus" genus and species are truthy but genus is not a string
\*               (a JSON number), so len(genus) raises TypeError
ParamKinds == {"full", "no_fasta", "bad_genus"}

MsgInit == "Job initialization failed"
MsgUpload == "FASTA upload failed"
MsgStart == "Job start failed"
MsgTypeError == "object of type 'int' has no len()"
MsgRemote == "remote error detail"

StatusValues ==
    {"pending", "running", "completed", "failed", "timeout", "no_results",
     "download_failed"}

\* The object BaktaJob(file_id, fasta_path) as the dataclass constructs it.
BaktaJob(f) ==
    [file_id |-> f, job_id |-> None, secret |-> None, status |-> "pending",
     submit_time |-> NoTime, complete_time |-> NoTime, error_message |-> None,
     result_path |-> None, retry_count |-> 0]

\* No BaktaJob object exists (yet) for the file.
NoJob == [file_id |-> 0]

\* Mutant: the compressed result is tried first.
download_candidates_CompressedFirst == <<"JSONGZ", "JSON">>

\* The priority list download_candidates of monitor_job.
download_candidates == <<"JSON", "JSONGZ">>

extension(file_type) == IF file_type = "JSON" THEN ".json" ELSE ".json.gz"

\* -------------------------------------------------------- naming derivation
\* A Python str is a sequence of one-character strings; NoText is Python's
\* None where a str is expected.
NoText == <<"None">>

Lower ==
    <<"a", "b", "c", "d", "e", "f", "g", "h", "i", "j", "k", "l", "m",
      "n", "o", "p", "q", "r", "s", "t", "u", "v", "w", "x", "y", "z">>

Upper ==
    <<"A", "B", "C", "D", "E", "F", "G", "H", "I", "J", "K", "L", "M",
      "N", "O", "P", "Q", "R", "S", "T", "U", "V", "W", "X", "Y", "Z">>

Digits == {"0", "1", "2", "3", "4", "5", "6", "7", "8", "9"}

\* str.upper() on one (ASCII) character.
upper_char(c) ==
    IF \E i \in 1 .. Len(Lower) : Lower[i] = c
    THEN Upper[CHOOSE i \in 1 .. Len(Lower) : Lower[i] = c]
    ELSE c

\* str.upper().
upper(text) == [i \in 1 .. Len(text) |-> upper_char(text[i])]

\* str.isalnum() on one (ASCII) character.
isalnum(c) ==
    \/ \E i \in 1 .. Len(Lower) : c = Lower[i] \/ c = Upper[i]
    \/ c \in Digits

\* The slice text[:n].
Prefix(text, n) == SubSeq(text, 1, IF n < Len(text) THEN n ELSE Len(text))

\* Python's truth value of an Optional[str].
Truthy(text) == text # NoText /\ text # <<>>

\* Mutant: the file identifier is upper-cased and cut without dropping the
\* characters that are not alphanumeric.
generate_locus_tag_Unfiltered(g, s, fid) ==
    IF Truthy(g) /\ Truthy(s)
    THEN IF Len(g) >= 2 /\ Len(s) >= 3
         THEN upper(Prefix(g, 2)) \o upper(Prefix(s, 3))
         ELSE Prefix(upper(g) \o upper(s), 5)
    ELSE LET clean_file_id == Prefix(upper(fid), 5)
         IN IF clean_file_id # <<>> THEN clean_file_id
            ELSE <<"B", "A", "K", "T", "A">>

\* Mutant: the tag the source's comment describes ("ECOLI" for Escherichia
\* coli): one letter of the genus, four of the species.
generate_locus_tag_AsCommented(g, s, fid) ==
    IF Truthy(g) /\ Truthy(s)
    THEN IF Len(g) >= 2 /\ Len(s) >= 3
         THEN upper(Prefix(g, 1)) \o upper(Prefix(s, 4))
         ELSE Prefix(upper(g) \o upper(s), 5)
    ELSE LET clean_file_id == Prefix(upper(SelectSeq(fid, isalnum)), 5)
         IN IF clean_file_id # <<>> THEN clean_file_id
            ELSE <<"B", "A", "K", "T", "A">>

\* BaktaAPIRunner._generate_locus_tag(genus, species, file_id), lines 308-319.
generate_locus_tag(g, s, fid) ==
    IF Truthy(g) /\ Truthy(s)
    THEN IF Len(g) >= 2 /\ Len(s) >= 3
         THEN upper(Prefix(g, 2)) \o upper(Prefix(s, 3))
         ELSE Prefix(upper(g) \o upper(s), 5)
    ELSE LET clean_file_id == Prefix(upper(SelectSeq(fid, isalnum)), 5)
         IN IF clean_file_id # <<>> THEN clean_file_id
            ELSE <<"B", "A", "K", "T", "A">>

\* submit_job, line 395: f"{locus_tag}_{job_id[:8]}".
locus_of(tag, jid) == tag \o <<"_">> \o Prefix(jid, 8)

\* The inputs the naming derivation is run on: every text of up to MaxLen
\* characters over a lower-case letter, an upper-case letter and a separator,
\* and the texts of the documented example.
Alphabet == {"e", "C", "_"}

Texts == UNION {[1 .. k -> Alphabet] : k \in 0 .. MaxLen}

Escherichia == <<"E", "s", "c", "h", "e", "r", "i", "c", "h", "i", "a">>

coli == <<"c", "o", "l", "i">>

GenusValues == {NoText, Escherichia} \cup Texts

SpeciesValues == {NoText, coli} \cup Texts

FileIdValues == {<<"x">>, <<"_", "-">>, <<"p", "_", "0", "1", ".", "f", "a", "s">>}

JobIdValues ==
    {<<"a", "b", "c", "d", "e", "f", "g", "h", "1", "2", "3", "4">>,
     <<"a", "b", "c", "d", "e", "f", "g", "h">>,
     <<"7", "f", "3">>}

VARIABLES
    parameters,      \* input: sequence of parameter entries (ParamKinds)
    replicon_df,     \* input: TRUE when a replicon table was loaded
    batch_size,      \* input: run_batch's batch_size
    dry_run,         \* input: run_batch's dry_run
    max_concurrent,  \* input: runner.max_concurrent
    max_wait_time,   \* monitor_job's wall-clock budget
    jobs,            \* keys of runner.jobs (each key maps to job[key])
    job,             \* the BaktaJob object created for each file
    sub,             \* position of each file's submit_job task
    mon,             \* position of each file's monitor_job task
    upload_links,    \* submit_job's local upload_links (channels present)
    replicon_upload, \* submit_job: what became of the replicon table
    elapsed_time,    \* monitor_job's local elapsed_time
    current_status,  \* monitor_job's local current_status
    result_files,    \* monitor_job's local result_files (kinds present)
    cand,            \* monitor_job's position in download_candidates
    work_queue,      \* the executor's FIFO queue of work items
    pc,              \* position of the main thread in run_batch
    batch_start,     \* run_batch's loop variable
    next_i,          \* run_batch's position in the dispatch loops
    pending,         \* futures as_completed has not yielded yet
    submitted_jobs,  \* run_batch's local submitted_jobs
    completed_count, \* run_batch's local completed_count
    calls,           \* per file: task starts and single-shot gateway calls
    clock,           \* per file: readings of datetime.now() taken so far
    pauses,          \* inter-batch sleeps performed
    report,          \* what generate_final_report wrote (a sequence)
    batches,         \* every value batch_files has taken, in order
    genus,           \* _generate_locus_tag's argument genus
    species,         \* _generate_locus_tag's argument species
    file_id,         \* _generate_locus_tag's argument file_id
    job_id,          \* the job identifier init_job returned, as text
    locus_tag,       \* submit_job's local locus_tag
    locus            \* submit_job's local locus

vars ==
    <<parameters, replicon_df, batch_size, dry_run, max_concurrent,
      max_wait_time, jobs, job, sub, mon, upload_links, replicon_upload,
      elapsed_time,
      current_status, result_files, cand, work_queue, pc, batch_start, next_i,
      pending, submitted_jobs, completed_count, calls, clock, pauses, report,
      batches, genus, species, file_id, job_id, locus_tag, locus>>

inputs ==
    <<parameters, replicon_df, batch_size, dry_run, max_concurrent,
      max_wait_time>>

mainVars ==
    <<pc, batch_start, next_i, pending, submitted_jobs, completed_count,
      jobs, pauses, report, batches>>

\* The variables of the naming derivation (lines 388-395 of submit_job).
naming == <<genus, species, file_id, job_id, locus_tag, locus>>

submitLocals == <<upload_links, replicon_upload>>

monitorLocals == <<elapsed_time, current_status, result_files, cand>>

\* ------------------------------------------------------------- run_batch
file_ids == 1 .. Len(parameters)

\* The identifiers the per-file variables are indexed by: those of the run,
\* and never fewer than MaxFiles.
FileIds ==
    1 .. (IF Len(parameters) > MaxFiles THEN Len(parameters) ELSE MaxFiles)

total_files == Len(parameters)

\* Mutant: the slice is not capped at batch_start + batch_size.
batch_end_Uncapped == total_files

batch_end == IF batch_start + batch_size < total_files
             THEN batch_start + batch_size ELSE total_files

\* Mutant: the slice starts at the head of the list, file_ids[:batch_end].
batch_files_FromStart == [i \in 1 .. batch_end |-> i]

\* file_ids[batch_start:batch_end], as a sequence.
batch_files == [i \in 1 .. (batch_end - batch_start) |-> batch_start + i]

\* States of a task that occupies a worker thread.
SubRunning == {"init", "upload", "replicon", "start"}

MonRunning == {"poll", "results", "download"}

SubFinished == {"returned", "raised"}

MonFinished == {"returned_true", "returned_false", "raised"}

BusyWorkers ==
    Cardinality({f \in FileIds : sub[f] \in SubRunning})
    + Cardinality({f \in FileIds : mon[f] \in MonRunning})

\* Mutant: the pool is sized by the batch, not by max_concurrent.
WorkerAvailable_BatchSized == BusyWorkers < batch_size

\* ThreadPoolExecutor(max_workers=self.max_concurrent): a queued work item
\* starts only when fewer than max_workers threads are busy.
WorkerAvailable == BusyWorkers < max_concurrent

\* datetime.now(): the reading a task of file f takes next.  Only the order of
\* the readings taken for one record is kept.
Now(f) == clock[f] + 1

Tick(f) == clock' = [clock EXCEPT ![f] = @ + 1]

\* The history calls[f] keeps, in order, the starts of the file's tasks and
\* the gateway calls a task makes at most once (init_job, the FASTA upload,
\* start_job, get_job_results).  The repeated and the best-effort calls are
\* followed through the locals of the task that makes them: the polling
\* rounds through elapsed_time and current_status, the downloads through cand
\* and result_files, the replicon upload through replicon_upload.
Log(f, op, ok) == calls' = [calls EXCEPT ![f] = Append(@, [op |-> op, ok |-> ok])]

\* Nothing has run yet: no record, no task, an empty pool.
Idle ==
    /\ jobs = {}
    /\ job = [f \in FileIds |-> NoJob]
    /\ sub = [f \in FileIds |-> "idle"]
    /\ mon = [f \in FileIds |-> "idle"]
    /\ upload_links = [f \in FileIds |-> {}]
    /\ replicon_upload = [f \in FileIds |-> None]
    /\ elapsed_time = [f \in FileIds |-> 0]
    /\ current_status = [f \in FileIds |-> None]
    /\ result_files = [f \in FileIds |-> {}]
    /\ cand = [f \in FileIds |-> 0]
    /\ work_queue = <<>>
    /\ pc = "start"
    /\ batch_start = 0
    /\ next_i = 0
    /\ pending = {}
    /\ submitted_jobs = <<>>
    /\ completed_count = 0
    /\ calls = [f \in FileIds |-> <<>>]
    /\ clock = [f \in FileIds |-> 0]
    /\ pauses = 0
    /\ report = <<>>
    /\ batches = <<>>

Init ==
    /\ parameters \in UNION {[1 .. n -> ParamKinds] : n \in 0 .. MaxFiles}
    /\ replicon_df \in BOOLEAN
    /\ batch_size \in 1 .. MaxFiles
    /\ dry_run \in BOOLEAN
    /\ max_concurrent \in 1 .. MaxFiles
    /\ max_wait_time = check_interval * MaxPolls
    /\ Idle
    /\ genus = NoText
    /\ species = NoText
    /\ file_id = <<>>
    /\ job_id = <<>>
    /\ locus_tag = NoText
    /\ locus = NoText

\* Mutant: the dry-run branch falls through to generate_final_report.
DryRun_Reports ==
    /\ pc = "start"
    /\ dry_run
    /\ pc' = IF \E f \in file_ids : parameters[f] = "no_fasta"
             THEN "raised" ELSE "done"
    /\ report' = IF pc' = "done"
                 THEN Append(report, [total |-> 0, successful |-> {},
                                      failed |-> {}])
                 ELSE report
    /\ UNCHANGED <<inputs, naming, batches, jobs, job, sub, mon, submitLocals,
                   monitorLocals, work_queue, batch_start, next_i, pending,
                   submitted_jobs, completed_count, calls, clock, pauses>>

\* run_batch, lines 508-513: the dry-run branch.  Reading params['fasta_file']
\* of an entry without that key raises KeyError out of run_batch.
DryRun ==
    /\ pc = "start"
    /\ dry_run
    /\ pc' = IF \E f \in file_ids : parameters[f] = "no_fasta"
             THEN "raised" ELSE "done"
    /\ UNCHANGED <<inputs, naming, batches, jobs, job, sub, mon, submitLocals, monitorLocals,
                   work_queue, batch_start, next_i, pending, submitted_jobs,
                   completed_count, calls, clock, pauses, report>>

\* Mutant: the dry_run flag is not consulted before the batch loop.
LiveStart_IgnoresDryRun ==
    /\ pc = "start"
    /\ pc' = "loop"
    /\ batch_start' = 0
    /\ UNCHANGED <<inputs, naming, batches, jobs, job, sub, mon, submitLocals,
                   monitorLocals, work_queue, next_i, pending, submitted_jobs,
                   completed_count, calls, clock, pauses, report>>

\* run_batch, lines 502-516, live mode: enter the batch loop.
LiveStart ==
    /\ pc = "start"
    /\ ~dry_run
    /\ pc' = "loop"
    /\ batch_start' = 0
    /\ UNCHANGED <<inputs, naming, batches, jobs, job, sub, mon, submitLocals, monitorLocals,
                   work_queue, next_i, pending, submitted_jobs,
                   completed_count, calls, clock, pauses, report>>

\* run_batch, lines 516-525: the next iteration of the batch loop creates a
\* fresh executor and an empty future_to_file.
BatchBegin ==
    /\ pc = "loop"
    /\ batch_start < total_files
    /\ pc' = "submit"
    /\ next_i' = 1
    /\ pending' = {}
    /\ work_queue' = <<>>
    /\ batches' = Append(batches, batch_files)
    /\ UNCHANGED <<inputs, naming, jobs, job, sub, mon, submitLocals, monitorLocals,
                   batch_start, submitted_jobs, completed_count, calls, clock,
                   pauses, report>>

\* run_batch, lines 526-532: executor.submit(self.submit_job, ...) for the
\* next file of the batch; after the last one, submitted_jobs = [].
DispatchSubmit ==
    /\ pc = "submit"
    /\ LET f == batch_files[next_i] IN
        /\ work_queue' = Append(work_queue, <<"submit", f>>)
        /\ sub' = [sub EXCEPT ![f] = "queued"]
        /\ pending' = pending \cup {f}
    /\ IF next_i = Len(batch_files)
       THEN /\ pc' = "collect_submit"
            /\ next_i' = 1
            /\ submitted_jobs' = <<>>
       ELSE /\ pc' = pc
            /\ next_i' = next_i + 1
            /\ submitted_jobs' = submitted_jobs
    /\ UNCHANGED <<inputs, naming, batches, jobs, job, mon, submitLocals, monitorLocals,
                   batch_start, completed_count, calls, clock, pauses, report>>

\* The phase that follows the collection of the submission outcomes
\* (lines 545-548): monitoring if any job is running, else the pool exits.
AfterSubmitPhase(submitted) ==
    IF submitted # <<>> THEN "monitor" ELSE "exit_pool"

\* Mutant: future.result() is not guarded, the exception leaves run_batch.
CollectSubmitPc_Uncaught(f, rest, submitted) ==
    IF sub[f] = "raised" THEN "raised"
    ELSE IF rest = {} THEN AfterSubmitPhase(submitted) ELSE "collect_submit"

\* Mutant: monitoring is dispatched as soon as one job is running.
CollectSubmitPc_Eager(f, rest, submitted) ==
    IF submitted # <<>> THEN "monitor"
    ELSE IF rest = {} THEN "exit_pool" ELSE "collect_submit"

\* run_batch, lines 533-548: where the main thread is after one iteration of
\* the as_completed loop over the submission futures, "rest" being the
\* futures not yet yielded.  An exception of future.result() is caught and
\* logged (lines 542-543), so the loop goes on.
CollectSubmitPc(f, rest, submitted) ==
    IF rest = {} THEN AfterSubmitPhase(submitted) ELSE "collect_submit"

\* run_batch, lines 533-548: one iteration of the as_completed loop over the
\* submission futures.  A future that raised is only logged.
CollectSubmit ==
    /\ pc = "collect_submit"
    /\ \E f \in pending :
        /\ sub[f] \in SubFinished
        /\ pending' = pending \ {f}
        /\ IF sub[f] = "returned"
           THEN /\ jobs' = jobs \cup {f}
                /\ submitted_jobs' =
                       IF job[f].status = "running"
                       THEN Append(submitted_jobs, f) ELSE submitted_jobs
           ELSE UNCHANGED <<jobs, submitted_jobs>>
        /\ pc' = CollectSubmitPc(f, pending', submitted_jobs')
    /\ UNCHANGED <<inputs, naming, batches, job, sub, mon, submitLocals, monitorLocals,
                   work_queue, batch_start, next_i, completed_count, calls,
                   clock, pauses, report>>

\* Mutant: every work item is bound to the loop variable's last value.
MonitorTarget_LateBinding(i) == submitted_jobs[Len(submitted_jobs)]

\* run_batch, lines 550-551: the job the i-th monitoring work item is bound to.
MonitorTarget(i) == submitted_jobs[i]

\* run_batch, lines 549-555: executor.submit(self.monitor_job, job) for the
\* next job of submitted_jobs; after the last one, completed_count = 0.
DispatchMonitor ==
    /\ pc = "monitor"
    /\ LET f == MonitorTarget(next_i) IN
        /\ work_queue' = Append(work_queue, <<"monitor", f>>)
        /\ mon' = [mon EXCEPT ![f] = "queued"]
        /\ pending' = pending \cup {f}
    /\ IF next_i = Len(submitted_jobs)
       THEN /\ pc' = "collect_monitor"
            /\ next_i' = 0
            /\ completed_count' = 0
       ELSE /\ pc' = pc
            /\ next_i' = next_i + 1
            /\ completed_count' = completed_count
    /\ UNCHANGED <<inputs, naming, batches, jobs, job, sub, submitLocals, monitorLocals,
                   batch_start, submitted_jobs, calls, clock, pauses, report>>

\* run_batch, lines 556-566: one iteration of the as_completed loop over the
\* monitoring futures.  A future that raised is only logged.
CollectMonitor ==
    /\ pc = "collect_monitor"
    /\ \E f \in pending :
        /\ mon[f] \in MonFinished
        /\ pending' = pending \ {f}
        /\ completed_count' =
               IF mon[f] = "raised" THEN completed_count
               ELSE completed_count + 1
        /\ pc' = IF pending' = {} THEN "exit_pool" ELSE pc
    /\ UNCHANGED <<inputs, naming, batches, jobs, job, sub, mon, submitLocals, monitorLocals,
                   work_queue, batch_start, next_i, submitted_jobs, calls,
                   clock, pauses, report>>

\* Leaving "with ThreadPoolExecutor(...)" is shutdown(wait=True): the main
\* thread goes on only when no work item is queued or running.
PoolDrained == work_queue = <<>> /\ BusyWorkers = 0

\* Mutant: the pause is taken after every batch, the last one included.
ExitPool_AlwaysPauses ==
    /\ pc = "exit_pool"
    /\ PoolDrained
    /\ pc' = "pause"
    /\ batch_start' = batch_start
    /\ UNCHANGED <<inputs, naming, batches, jobs, job, sub, mon, submitLocals,
                   monitorLocals, work_queue, next_i, pending, submitted_jobs,
                   completed_count, calls, clock, pauses, report>>

\* run_batch, lines 523 (exit of the with block) and 568-571.
ExitPool ==
    /\ pc = "exit_pool"
    /\ PoolDrained
    /\ IF batch_end < total_files
       THEN /\ pc' = "pause"
            /\ batch_start' = batch_start
       ELSE /\ pc' = "loop"
            /\ batch_start' = batch_start + batch_size
    /\ UNCHANGED <<inputs, naming, batches, jobs, job, sub, mon, submitLocals, monitorLocals,
                   work_queue, next_i, pending, submitted_jobs,
                   completed_count, calls, clock, pauses, report>>

\* run_batch, line 571: time.sleep(10), then the next iteration.
Pause ==
    /\ pc = "pause"
    /\ pauses' = pauses + 1
    /\ batch_start' = batch_start + batch_size
    /\ pc' = "loop"
    /\ UNCHANGED <<inputs, naming, batches, jobs, job, sub, mon, submitLocals, monitorLocals,
                   work_queue, next_i, pending, submitted_jobs,
                   completed_count, calls, clock, report>>

\* generate_final_report's two buckets.
successful == {f \in jobs : job[f].status = "completed"}

\* Mutant: every record that is not completed counts as failed.
failed_AllOthers == {f \in jobs : job[f].status # "completed"}

failed == {f \in jobs : job[f].status \in {"failed", "timeout", "download_failed"}}

\* run_batch line 573 and generate_final_report: the loop is over, the report
\* is written.  job.complete_time - job.submit_time raises TypeError when
\* either is None, and nothing catches it.  Either way run_batch is left, and
\* its locals with it.
GenerateFinalReport ==
    /\ pc = "loop"
    /\ batch_start >= total_files
    /\ IF \E f \in successful :
              job[f].complete_time = NoTime \/ job[f].submit_time = NoTime
       THEN /\ pc' = "raised"
            /\ report' = report
       ELSE /\ pc' = "done"
            /\ report' = Append(report,
                   [total |-> Cardinality(jobs), successful |-> successful,
                    failed |-> failed])
    /\ batch_start' = 0
    /\ next_i' = 0
    /\ pending' = {}
    /\ submitted_jobs' = <<>>
    /\ completed_count' = 0
    /\ UNCHANGED <<inputs, naming, batches, jobs, job, sub, mon, submitLocals, monitorLocals,
                   work_queue, calls, clock, pauses>>

\* ------------------------------------------------------------ submit_job
\* What init_job can return: (None, None, None) on failure, else the job
\* identifier with whatever secret and upload links the response carried.
InitResponses ==
    {[job_id |-> None, secret |-> None, links |-> {}]}
    \cup [job_id : {"jobid"}, secret : {None, "secret"},
          links : {{}, {"fasta"}}]

Return(f) ==
    /\ upload_links' = [upload_links EXCEPT ![f] = {}]
    /\ replicon_upload' = [replicon_upload EXCEPT ![f] = None]

\* Mutant: the failure's message is stored but the status is left as it was.
Fail_MessageOnly(f, msg) ==
    job' = [job EXCEPT ![f].error_message = msg]

\* submit_job's failure exits (lines 361-362, 375-376, 399-400, 407-408).
Fail(f, msg) ==
    job' = [job EXCEPT ![f].status = "failed", ![f].error_message = msg]

\* A worker takes the submit_job work item at the head of the queue and runs
\* line 354: BaktaJob(file_id, params['fasta_file']), outside the try block,
\* so a missing key raises KeyError out of submit_job.
StartSubmit(f) ==
    /\ work_queue # <<>>
    /\ Head(work_queue) = <<"submit", f>>
    /\ WorkerAvailable
    /\ work_queue' = Tail(work_queue)
    /\ IF parameters[f] = "no_fasta"
       THEN /\ sub' = [sub EXCEPT ![f] = "raised"]
            /\ job' = job
       ELSE /\ sub' = [sub EXCEPT ![f] = "init"]
            /\ job' = [job EXCEPT ![f] = BaktaJob(f)]
    /\ Log(f, "submit_job", TRUE)
    /\ UNCHANGED <<inputs, naming, mainVars, mon, submitLocals, monitorLocals, clock>>

\* Mutant: submit_time is stamped before init_job's answer is looked at.
SubmitInit_StampsFirst(f) ==
    /\ sub[f] = "init"
    /\ \E r \in InitResponses :
        /\ Log(f, "init", r.job_id # None)
        /\ Tick(f)
        /\ IF r.job_id = None
           THEN /\ job' = [job EXCEPT ![f].status = "failed",
                                      ![f].error_message = MsgInit,
                                      ![f].submit_time = Now(f)]
                /\ sub' = [sub EXCEPT ![f] = "returned"]
                /\ Return(f)
           ELSE /\ job' = [job EXCEPT ![f].job_id = r.job_id,
                                      ![f].secret = r.secret,
                                      ![f].submit_time = Now(f)]
                /\ upload_links' = [upload_links EXCEPT ![f] = r.links]
                /\ replicon_upload' = replicon_upload
                /\ sub' = [sub EXCEPT ![f] = "upload"]
    /\ UNCHANGED <<inputs, naming, mainVars, mon, monitorLocals, work_queue>>

\* Mutant: a failed init_job is retried once, counted in retry_count.
SubmitInit_Retries(f) ==
    /\ sub[f] = "init"
    /\ \E r \in InitResponses :
        /\ Log(f, "init", r.job_id # None)
        /\ IF r.job_id = None /\ job[f].retry_count < 1
           THEN /\ job' = [job EXCEPT ![f].retry_count = @ + 1]
                /\ UNCHANGED <<sub, submitLocals, clock>>
           ELSE IF r.job_id = None
           THEN /\ Fail(f, MsgInit)
                /\ sub' = [sub EXCEPT ![f] = "returned"]
                /\ Return(f)
                /\ clock' = clock
           ELSE /\ job' = [job EXCEPT ![f].job_id = r.job_id,
                                      ![f].secret = r.secret,
                                      ![f].submit_time = Now(f)]
                /\ Tick(f)
                /\ upload_links' = [upload_links EXCEPT ![f] = r.links]
                /\ replicon_upload' = replicon_upload
                /\ sub' = [sub EXCEPT ![f] = "upload"]
    /\ UNCHANGED <<inputs, naming, mainVars, mon, monitorLocals, work_queue>>

\* Mutant: job_id and secret are stored but submit_time is not stamped.
SubmitInit_NoStamp(f) ==
    /\ sub[f] = "init"
    /\ \E r \in InitResponses :
        /\ Log(f, "init", r.job_id # None)
        /\ clock' = clock
        /\ IF r.job_id = None
           THEN /\ Fail(f, MsgInit)
                /\ sub' = [sub EXCEPT ![f] = "returned"]
                /\ Return(f)
           ELSE /\ job' = [job EXCEPT ![f].job_id = r.job_id,
                                      ![f].secret = r.secret]
                /\ upload_links' = [upload_links EXCEPT ![f] = r.links]
                /\ replicon_upload' = replicon_upload
                /\ sub' = [sub EXCEPT ![f] = "upload"]
    /\ UNCHANGED <<inputs, naming, mainVars, mon, monitorLocals, work_queue>>

\* submit_job, lines 358-367: init_job and the bookkeeping that follows it.
SubmitInit(f) ==
    /\ sub[f] = "init"
    /\ \E r \in InitResponses :
        /\ Log(f, "init", r.job_id # None)
        /\ IF r.job_id = None
           THEN /\ Fail(f, MsgInit)
                /\ sub' = [sub EXCEPT ![f] = "returned"]
                /\ Return(f)
                /\ clock' = clock
           ELSE /\ job' = [job EXCEPT ![f].job_id = r.job_id,
                                      ![f].secret = r.secret,
                                      ![f].submit_time = Now(f)]
                /\ Tick(f)
                /\ upload_links' = [upload_links EXCEPT ![f] = r.links]
                /\ replicon_upload' = replicon_upload
                /\ sub' = [sub EXCEPT ![f] = "upload"]
    /\ UNCHANGED <<inputs, naming, mainVars, mon, monitorLocals, work_queue>>

\* Mutant: a failed FASTA upload is only logged and the submission goes on.
SubmitUpload_IgnoresFailure(f) ==
    /\ sub[f] = "upload"
    /\ \E ok \in BOOLEAN :
        /\ ok => "fasta" \in upload_links[f]
        /\ Log(f, "upload", ok)
    /\ sub' = [sub EXCEPT ![f] = IF replicon_df THEN "replicon" ELSE "start"]
    /\ UNCHANGED <<job, submitLocals>>
    /\ UNCHANGED <<inputs, naming, mainVars, mon, monitorLocals, work_queue,
                   clock>>

\* submit_job, lines 369-378: upload of the FASTA file.  upload_file returns
\* False for a missing link (None URL) as for any other transfer failure.
SubmitUpload(f) ==
    /\ sub[f] = "upload"
    /\ \E ok \in BOOLEAN :
        /\ ok => "fasta" \in upload_links[f]
        /\ Log(f, "upload", ok)
        /\ IF ok
           THEN /\ sub' = [sub EXCEPT ![f] =
                              IF replicon_df THEN "replicon" ELSE "start"]
                /\ UNCHANGED <<job, submitLocals>>
           ELSE /\ Fail(f, MsgUpload)
                /\ sub' = [sub EXCEPT ![f] = "returned"]
                /\ Return(f)
    /\ UNCHANGED <<inputs, naming, mainVars, mon, monitorLocals, work_queue, clock>>

\* Mutant: a failed replicon upload fails the submission.
SubmitReplicon_HardStop(f) ==
    /\ sub[f] = "replicon"
    /\ \E r \in {"no_table", "uploaded", "upload_failed"} :
        IF r = "upload_failed"
        THEN /\ Fail(f, MsgUpload)
             /\ sub' = [sub EXCEPT ![f] = "returned"]
             /\ Return(f)
        ELSE /\ replicon_upload' = [replicon_upload EXCEPT ![f] = r]
             /\ sub' = [sub EXCEPT ![f] = "start"]
             /\ UNCHANGED <<job, upload_links>>
    /\ UNCHANGED <<inputs, naming, mainVars, mon, monitorLocals, work_queue,
                   calls, clock>>

\* submit_job, lines 380-385: the replicon table.  Either no per-file table
\* is produced (create_replicon_table_for_file returns None: no call) or its
\* upload is attempted; a failed upload is only logged.
SubmitReplicon(f) ==
    /\ sub[f] = "replicon"
    /\ \E r \in {"no_table", "uploaded", "upload_failed"} :
        replicon_upload' = [replicon_upload EXCEPT ![f] = r]
    /\ sub' = [sub EXCEPT ![f] = "start"]
    /\ UNCHANGED <<inputs, naming, mainVars, job, mon, upload_links, monitorLocals,
                   work_queue, calls, clock>>

\* submit_job, lines 387-410: derive the naming fields and call start_job.
\* _generate_locus_tag raises TypeError on a non-string genus; the except
\* clause turns it into status failed with str(e).
SubmitStart(f) ==
    /\ sub[f] = "start"
    /\ IF parameters[f] = "bad_genus"
       THEN /\ Fail(f, MsgTypeError)
            /\ calls' = calls
       ELSE \E ok \in BOOLEAN :
            /\ Log(f, "start", ok)
            /\ IF ok THEN job' = [job EXCEPT ![f].status = "running"]
               ELSE Fail(f, MsgStart)
    /\ sub' = [sub EXCEPT ![f] = "returned"]
    /\ Return(f)
    /\ UNCHANGED <<inputs, naming, mainVars, mon, monitorLocals, work_queue, clock>>

\* ----------------------------------------------------------- monitor_job
\* What get_job_status can return: None (transport failure, non-200, no job
\* in the list) or a dict with the remote state and its error detail.
NoResponse == [status |-> None, error |-> None]

StatusResponses ==
    {NoResponse,
     [status |-> "SUCCESSFUL", error |-> None],
     [status |-> "ERROR", error |-> None],
     [status |-> "ERROR", error |-> MsgRemote],
     [status |-> "RUNNING", error |-> None],
     [status |-> "UNKNOWN", error |-> None]}

InProgress == {"PENDING", "SUBMITTED", "RUNNING", "INIT", "UPLOADING"}

\* What get_job_results can return, as monitor_job reads it: nothing usable
\* (None, or a body without 'ResultFiles'), a body whose 'ResultFiles' is
\* null, or a body whose 'ResultFiles' maps these result kinds to URLs.
ManifestResponses ==
    {[usable |-> FALSE, null |-> FALSE, kinds |-> {}],
     [usable |-> TRUE, null |-> TRUE, kinds |-> {}]}
    \cup [usable : {TRUE}, null : {FALSE},
          kinds : SUBSET {"JSON", "JSONGZ"}]

\* Mutant: every return of monitor_job reports success.
MonitorReturn_AlwaysTrue(f, result) ==
    /\ mon' = [mon EXCEPT ![f] =
                  IF result = "raised" THEN result ELSE "returned_true"]
    /\ elapsed_time' = [elapsed_time EXCEPT ![f] = 0]
    /\ current_status' = [current_status EXCEPT ![f] = None]
    /\ result_files' = [result_files EXCEPT ![f] = {}]
    /\ cand' = [cand EXCEPT ![f] = 0]

\* monitor_job returns (or raises): the task ends and its locals are gone.
MonitorReturn(f, result) ==
    /\ mon' = [mon EXCEPT ![f] = result]
    /\ elapsed_time' = [elapsed_time EXCEPT ![f] = 0]
    /\ current_status' = [current_status EXCEPT ![f] = None]
    /\ result_files' = [result_files EXCEPT ![f] = {}]
    /\ cand' = [cand EXCEPT ![f] = 0]

\* Mutant: the budget test lets a round start when the budget is just spent.
LoopContinues_Inclusive(elapsed) == elapsed <= max_wait_time

\* monitor_job, line 421: the test of the polling loop.
LoopContinues(elapsed) == elapsed < max_wait_time

\* Mutant: a status query without an answer is treated as unrecognized.
Answered_Always(r) == TRUE

\* monitor_job, line 424: the status query gave something to read.
Answered(r) == r # NoResponse

\* Mutant: an unrecognized remote state fails the job.
PollBranch_UnknownFails(status) ==
    IF status = "SUCCESSFUL" THEN "successful"
    ELSE IF status = "ERROR" THEN "error"
    ELSE IF status \in InProgress THEN "wait"
    ELSE "error"

\* Mutant: a remote ERROR is handled like a state still in progress.
PollBranch_ErrorWaits(status) ==
    IF status = "SUCCESSFUL" THEN "successful" ELSE "wait"

\* Mutant: a job reported RUNNING is taken for finished.
PollBranch_RunningSucceeds(status) ==
    IF status \in {"SUCCESSFUL", "RUNNING"} THEN "successful"
    ELSE IF status = "ERROR" THEN "error"
    ELSE "wait"

\* monitor_job, lines 431, 481, 487 and 490: the branch taken on the remote
\* state; the in-progress states and the unknown ones both sleep.
PollBranch(status) ==
    IF status = "SUCCESSFUL" THEN "successful"
    ELSE IF status = "ERROR" THEN "error"
    ELSE IF status \in InProgress THEN "wait"
    ELSE "wait"

\* A worker takes the monitor_job work item at the head of the queue and runs
\* lines 414-421, up to the first status query.
StartMonitor(f) ==
    /\ work_queue # <<>>
    /\ Head(work_queue) = <<"monitor", f>>
    /\ WorkerAvailable
    /\ work_queue' = Tail(work_queue)
    /\ Log(f, "monitor_job", TRUE)
    /\ IF job[f].job_id = None \/ job[f].secret = None
       THEN /\ MonitorReturn(f, "returned_false")
            /\ job' = job
       ELSE IF LoopContinues(0)
       THEN /\ mon' = [mon EXCEPT ![f] = "poll"]
            /\ elapsed_time' = [elapsed_time EXCEPT ![f] = 0]
            /\ UNCHANGED <<job, current_status, result_files, cand>>
       ELSE /\ MonitorReturn(f, "returned_false")
            /\ job' = [job EXCEPT ![f].status = "timeout"]
    /\ UNCHANGED <<inputs, naming, mainVars, sub, submitLocals, clock>>

\* Mutant: the sleeping branches forget elapsed_time += check_interval.
MonitorPoll_NoElapsed(f) ==
    /\ mon[f] = "poll"
    /\ \E r \in StatusResponses :
        IF ~Answered(r)
        THEN /\ MonitorReturn(f, "returned_false")
             /\ UNCHANGED <<job, clock>>
        ELSE IF PollBranch(r.status) = "successful"
        THEN /\ job' = [job EXCEPT ![f].status = "completed",
                                   ![f].complete_time = Now(f)]
             /\ Tick(f)
             /\ mon' = [mon EXCEPT ![f] = "results"]
             /\ current_status' = [current_status EXCEPT ![f] = r.status]
             /\ UNCHANGED <<elapsed_time, result_files, cand>>
        ELSE IF PollBranch(r.status) = "error"
        THEN /\ job' = [job EXCEPT ![f].status = "failed",
                                   ![f].error_message = r.error]
             /\ MonitorReturn(f, "returned_false")
             /\ clock' = clock
        ELSE IF LoopContinues(elapsed_time[f])
        THEN /\ current_status' = [current_status EXCEPT ![f] = r.status]
             /\ UNCHANGED <<job, mon, elapsed_time, result_files, cand, clock>>
        ELSE /\ job' = [job EXCEPT ![f].status = "timeout"]
             /\ MonitorReturn(f, "returned_false")
             /\ clock' = clock
    /\ UNCHANGED <<inputs, naming, mainVars, sub, submitLocals, work_queue,
                   calls>>

\* monitor_job, lines 421-433 and 481-498: one round of the polling loop:
\* the status query, the branch on its answer and, for a job still in
\* progress, the sleep and the loop test that follow it.
MonitorPoll(f) ==
    /\ mon[f] = "poll"
    /\ \E r \in StatusResponses :
        IF ~Answered(r)
        THEN /\ MonitorReturn(f, "returned_false")
             /\ UNCHANGED <<job, clock>>
        ELSE IF PollBranch(r.status) = "successful"
        THEN /\ job' = [job EXCEPT ![f].status = "completed",
                                   ![f].complete_time = Now(f)]
             /\ Tick(f)
             /\ mon' = [mon EXCEPT ![f] = "results"]
             /\ current_status' = [current_status EXCEPT ![f] = r.status]
             /\ UNCHANGED <<elapsed_time, result_files, cand>>
        ELSE IF PollBranch(r.status) = "error"
        THEN /\ job' = [job EXCEPT ![f].status = "failed",
                                   ![f].error_message = r.error]
             /\ MonitorReturn(f, "returned_false")
             /\ clock' = clock
        ELSE IF LoopContinues(elapsed_time[f] + check_interval)
        THEN /\ elapsed_time' = [elapsed_time EXCEPT ![f] = @ + check_interval]
             /\ current_status' = [current_status EXCEPT ![f] = r.status]
             /\ UNCHANGED <<job, mon, result_files, cand, clock>>
        ELSE /\ job' = [job EXCEPT ![f].status = "timeout"]
             /\ MonitorReturn(f, "returned_false")
             /\ clock' = clock
    /\ UNCHANGED <<inputs, naming, mainVars, sub, submitLocals, work_queue,
                   calls>>

\* Positions of download_candidates, from position i on, whose kind is in
\* the manifest "kinds".
Candidates(kinds, i) ==
    {k \in i .. Len(download_candidates) : download_candidates[k] \in kinds}

Min(S) == CHOOSE x \in S : \A y \in S : x <= y

\* monitor_job, lines 439-457 and 467-479: fetch the result manifest and go
\* to the first download.  len(result_files) raises TypeError when
\* 'ResultFiles' is null, and monitor_job has no except clause.
MonitorResults(f) ==
    /\ mon[f] = "results"
    /\ \E r \in ManifestResponses :
        /\ Log(f, "results", r.usable)
        /\ IF ~r.usable
           THEN /\ job' = [job EXCEPT ![f].status = "no_results"]
                /\ MonitorReturn(f, "returned_false")
           ELSE IF r.null
           THEN /\ job' = job
                /\ MonitorReturn(f, "raised")
           ELSE IF Candidates(r.kinds, 1) = {}
           THEN /\ job' = [job EXCEPT ![f].status = "download_failed"]
                /\ MonitorReturn(f, "returned_false")
           ELSE /\ job' = job
                /\ mon' = [mon EXCEPT ![f] = "download"]
                /\ result_files' = [result_files EXCEPT ![f] = r.kinds]
                /\ cand' = [cand EXCEPT ![f] = Min(Candidates(r.kinds, 1))]
                /\ UNCHANGED <<elapsed_time, current_status>>
    /\ UNCHANGED <<inputs, naming, mainVars, sub, submitLocals, work_queue, clock>>

\* Mutant: result_path is assigned before the download's outcome is tested.
AfterDownload_PathFirst(j, file_type, ok) ==
    [j EXCEPT !.result_path = extension(file_type),
              !.status = IF ok THEN "completed" ELSE @]

\* Mutant: the second assignment of "completed" stamps complete_time again.
AfterDownload_Restamp(j, file_type, ok) ==
    IF ok
    THEN [j EXCEPT !.result_path = extension(file_type),
                   !.status = "completed",
                   !.complete_time = @ + 1]
    ELSE j

\* monitor_job, lines 458-465: the record after one download attempt.
AfterDownload(j, file_type, ok) ==
    IF ok
    THEN [j EXCEPT !.result_path = extension(file_type),
                   !.status = "completed"]
    ELSE j

\* monitor_job, lines 452-472: the download of candidate cand[f] and what
\* follows it: return on success, else the next candidate the manifest has,
\* else the end of the loop with nothing downloaded.
MonitorDownload(f) ==
    /\ mon[f] = "download"
    /\ LET file_type == download_candidates[cand[f]]
           rest == Candidates(result_files[f], cand[f] + 1)
       IN \E ok \in BOOLEAN :
           IF ok
           THEN /\ job' = [job EXCEPT ![f] = AfterDownload(@, file_type, ok)]
                /\ MonitorReturn(f, "returned_true")
           ELSE IF rest # {}
           THEN /\ job' = [job EXCEPT ![f] = AfterDownload(@, file_type, ok)]
                /\ cand' = [cand EXCEPT ![f] = Min(rest)]
                /\ UNCHANGED <<mon, elapsed_time, current_status,
                               result_files>>
           ELSE /\ job' = [job EXCEPT ![f] =
                       [AfterDownload(@, file_type, ok)
                            EXCEPT !.status = "download_failed"]]
                /\ MonitorReturn(f, "returned_false")
    /\ UNCHANGED <<inputs, naming, mainVars, sub, submitLocals, work_queue, calls,
                   clock>>

Next ==
    \/ DryRun
    \/ LiveStart
    \/ BatchBegin
    \/ DispatchSubmit
    \/ CollectSubmit
    \/ DispatchMonitor
    \/ CollectMonitor
    \/ ExitPool
    \/ Pause
    \/ GenerateFinalReport
    \/ \E f \in FileIds :
        \/ StartSubmit(f)
        \/ SubmitInit(f)
        \/ SubmitUpload(f)
        \/ SubmitReplicon(f)
        \/ SubmitStart(f)
        \/ StartMonitor(f)
        \/ MonitorPoll(f)
        \/ MonitorResults(f)
        \/ MonitorDownload(f)

Spec == Init /\ [][Next]_vars

\* --------------------------------------------- the real wall-clock budget
\* Runs of run_batch over two entries, one at a time (batch size 1, one
\* worker), with monitor_job's budget as the source sets it.
InitBudget ==
    /\ parameters \in [1 .. 2 -> ParamKinds]
    /\ replicon_df \in BOOLEAN
    /\ batch_size = 1
    /\ dry_run \in BOOLEAN
    /\ max_concurrent = 1
    /\ max_wait_time = MaxWaitTime
    /\ Idle
    /\ genus = NoText
    /\ species = NoText
    /\ file_id = <<>>
    /\ job_id = <<>>
    /\ locus_tag = NoText
    /\ locus = NoText

SpecBudget == InitBudget /\ [][Next]_vars

\* ------------------------------------------------- runs that keep going
\* Runs of run_batch over two entries in which no thread stops for ever:
\* the main thread takes its next step whenever it can, and so does the
\* worker thread of every task (every gateway call returns, every sleep
\* ends, a queued work item is started once a worker is free).
InitLive ==
    /\ parameters \in [1 .. 2 -> ParamKinds]
    /\ replicon_df \in BOOLEAN
    /\ batch_size \in 1 .. 2
    /\ dry_run \in BOOLEAN
    /\ max_concurrent \in 1 .. 2
    /\ max_wait_time = check_interval * MaxPolls
    /\ Idle
    /\ genus = NoText
    /\ species = NoText
    /\ file_id = <<>>
    /\ job_id = <<>>
    /\ locus_tag = NoText
    /\ locus = NoText

\* The steps of the main thread.
MainThread ==
    \/ DryRun
    \/ LiveStart
    \/ BatchBegin
    \/ DispatchSubmit
    \/ CollectSubmit
    \/ DispatchMonitor
    \/ CollectMonitor
    \/ ExitPool
    \/ Pause
    \/ GenerateFinalReport

\* The steps of the worker threads that run the tasks of file f.
WorkerThread(f) ==
    \/ StartSubmit(f)
    \/ SubmitInit(f)
    \/ SubmitUpload(f)
    \/ SubmitReplicon(f)
    \/ SubmitStart(f)
    \/ StartMonitor(f)
    \/ MonitorPoll(f)
    \/ MonitorResults(f)
    \/ MonitorDownload(f)

Fairness ==
    /\ WF_vars(MainThread)
    /\ \A f \in 1 .. 2 : WF_vars(WorkerThread(f))

SpecLive == InitLive /\ [][Next]_vars /\ Fairness

\* ------------------------------------------------ the batch loop alone
\* Live runs over up to MaxBatchFiles entries that all lack 'fasta_file':
\* every submit_job ends at line 354, so run_batch's loops are all that runs.
\* NextBatching is Next without the actions such a run never enables.
InitBatching ==
    /\ parameters \in
           UNION {[1 .. n -> {"no_fasta"}] : n \in 0 .. MaxBatchFiles}
    /\ replicon_df = FALSE
    /\ batch_size \in 1 .. MaxBatchFiles
    /\ dry_run = FALSE
    /\ max_concurrent \in {1, MaxBatchFiles}
    /\ max_wait_time = check_interval * MaxPolls
    /\ Idle
    /\ genus = NoText
    /\ species = NoText
    /\ file_id = <<>>
    /\ job_id = <<>>
    /\ locus_tag = NoText
    /\ locus = NoText

NextBatching ==
    \/ LiveStart
    \/ BatchBegin
    \/ DispatchSubmit
    \/ CollectSubmit
    \/ ExitPool
    \/ Pause
    \/ GenerateFinalReport
    \/ \E f \in FileIds : StartSubmit(f)

SpecBatching == InitBatching /\ [][NextBatching]_vars

\* ------------------------------------------- the naming derivation alone
\* submit_job's lines 388-395 applied to one parameter entry and one job
\* identifier, with the orchestrator at rest.
InitNaming ==
    /\ parameters = <<>>
    /\ replicon_df = FALSE
    /\ batch_size = 1
    /\ dry_run = FALSE
    /\ max_concurrent = 1
    /\ max_wait_time = check_interval * MaxPolls
    /\ Idle
    /\ genus \in GenusValues
    /\ species \in SpeciesValues
    /\ file_id \in FileIdValues
    /\ job_id \in JobIdValues
    /\ locus_tag = NoText
    /\ locus = NoText

\* submit_job, line 394.
GenerateLocusTag ==
    /\ locus_tag = NoText
    /\ locus_tag' = generate_locus_tag(genus, species, file_id)
    /\ UNCHANGED <<inputs, mainVars, job, sub, mon, submitLocals,
                   monitorLocals, work_queue, calls, clock, genus, species,
                   file_id, job_id, locus>>

\* submit_job, line 395.
DeriveLocus ==
    /\ locus_tag # NoText
    /\ locus = NoText
    /\ locus' = locus_of(locus_tag, job_id)
    /\ UNCHANGED <<inputs, mainVars, job, sub, mon, submitLocals,
                   monitorLocals, work_queue, calls, clock, genus, species,
                   file_id, job_id, locus_tag>>

NextNaming ==
    \/ GenerateLocusTag
    \/ DeriveLocus

SpecNaming == InitNaming /\ [][NextNaming]_vars

\* ------------------------------------------------------------ properties
Terminal == {"completed", "failed", "timeout", "no_results", "download_failed"}

\* A BaktaJob object has been created for the file.
Exists(f) == job[f].file_id # 0

\* Number of entries of the file's history with this operation.
Count(f, op) == Cardinality({i \in 1 .. Len(calls[f]) : calls[f][i].op = op})

\* start_job succeeded for the file, i.e. its submission returned "running".
HasStartOk(f) ==
    \E i \in 1 .. Len(calls[f]) : calls[f][i] = [op |-> "start", ok |-> TRUE]

\* Index (from 0) of the batch the file belongs to.
BatchOf(f) == (f - 1) \div batch_size

\* All the work run_batch does for the file is over.
Drained(f) ==
    /\ sub[f] \in SubFinished
    /\ HasStartOk(f) => mon[f] \in MonFinished

\* C1 (as claimed, live mode): when run_batch has finished, runner.jobs holds
\* a record for every input file identifier, whatever the tasks' outcomes.
C1_LiveOneRecordPerIdentifier ==
    (pc = "done" /\ ~dry_run) => jobs = file_ids

\* C2 (as claimed): monitor_job never raises, and whenever it has returned the
\* record's status is a terminal state (never pending or running).
C2_MonitorLeavesTerminal ==
    \A f \in FileIds :
        mon[f] \in MonFinished =>
            mon[f] # "raised" /\ job[f].status \in Terminal

\* C3: in every reachable state, a record that has a result_path has status
\* completed.
C3_ResultPathOnlyWhenCompleted ==
    \A f \in FileIds :
        Exists(f) /\ job[f].result_path # None => job[f].status = "completed"

C3_Witness ==
    \E f \in FileIds :
        /\ Exists(f)
        /\ job[f].result_path = ".json.gz"
        /\ mon[f] = "returned_true"

\* C4 (as claimed): in every reachable state, a record has a result_path if
\* and only if its status is completed.
C4_ResultPathIffCompleted ==
    \A f \in FileIds :
        Exists(f) => (job[f].result_path # None <=> job[f].status = "completed")

\* C5 (as claimed): submit_job never propagates an exception to its caller.
C5_SubmitNeverRaises == \A f \in FileIds : sub[f] # "raised"

\* C6: in a live run no exception of a task leaves run_batch, and when
\* run_batch is done every file's submission task has run to its end, every
\* job whose submission reached "running" has been monitored to the end, and
\* the final report has been written once.
C6_TaskExceptionNeverAborts ==
    ~dry_run =>
        /\ pc # "raised"
        /\ pc = "done" =>
            /\ Len(report) = 1
            /\ \A f \in file_ids : Drained(f)

C6_Witness ==
    /\ pc = "done"
    /\ batch_size = 1
    /\ sub[1] = "raised"
    /\ mon[2] = "raised"
    /\ Len(report) = 1

C8_SubmitMonitorBarrier ==
    \A f \in file_ids : \A g \in file_ids :
        BatchOf(f) = BatchOf(g) /\ mon[g] # "idle" => sub[f] \in SubFinished

C8_Witness ==
    /\ Len(parameters) = 2
    /\ batch_size = 2
    /\ sub[1] = "returned"
    /\ job[1].status = "failed"
    /\ mon[2] \in MonRunning

\* C9: at every moment the number of submission and monitoring tasks that
\* occupy a worker is at most max_concurrent.
C9_PoolBound == BusyWorkers <= max_concurrent

C9_Witness ==
    /\ BusyWorkers = max_concurrent
    /\ work_queue # <<>>
    /\ Head(work_queue)[1] = "monitor"

\* C10: every record is worked on by at most one submission task and at most
\* one monitoring task, the monitoring task exists only once the submission
\* task has returned, and at the end of a live run every input file has had
\* exactly one submission task.
C10_OneTaskPerRecord ==
    \A f \in FileIds :
        /\ Count(f, "submit_job") <= 1
        /\ Count(f, "monitor_job") <= 1
        /\ mon[f] # "idle" => sub[f] = "returned"
        /\ (pc = "done" /\ ~dry_run /\ f \in file_ids) =>
               Count(f, "submit_job") = 1

C10_Witness ==
    /\ mon[1] \in MonRunning
    /\ mon[2] \in MonRunning
    /\ Count(1, "monitor_job") = 1
    /\ Count(2, "monitor_job") = 1
\* ceil(n / b) for b >= 1.
CeilDiv(n, b) == (n + b - 1) \div b

\* The k-th (from 1) of the consecutive slices of size b of the list 1 .. n.
Slice(k, n, b) ==
    [i \in 1 .. (IF k * b <= n THEN b ELSE n - (k - 1) * b) |-> (k - 1) * b + i]

\* C11: in a live run the batches processed are, in order, the consecutive
\* slices of size batch_size of the identifier list (the last one possibly
\* shorter); when run_batch is done there are exactly ceil(n / batch_size) of
\* them and every identifier is in exactly one.
C11_BatchesPartitionInput ==
    ~dry_run =>
        /\ Len(batches) <= CeilDiv(total_files, batch_size)
        /\ \A k \in 1 .. Len(batches) :
               /\ batches[k] = Slice(k, total_files, batch_size)
               /\ Len(batches[k]) >= 1
               /\ k < CeilDiv(total_files, batch_size) =>
                      Len(batches[k]) = batch_size
        /\ pc = "done" =>
               /\ Len(batches) = CeilDiv(total_files, batch_size)
               /\ \A f \in file_ids :
                      Cardinality({<<k, i>> \in (1 .. Len(batches)) \X FileIds :
                          i <= Len(batches[k]) /\ batches[k][i] = f}) = 1

C11_Witness ==
    /\ pc = "done"
    /\ ~dry_run
    /\ total_files = 5
    /\ batch_size = 2
    /\ batches = <<<<1, 2>>, <<3, 4>>, <<5>>>>

\* C12: in a dry run no gateway operation is invoked, no task is dispatched,
\* no BaktaJob is created and runner.jobs stays empty, in every state up to
\* and including the return of run_batch.
C12_DryRunTouchesNothing ==
    dry_run =>
        /\ jobs = {}
        /\ work_queue = <<>>
        /\ batches = <<>>
        /\ \A f \in FileIds :
               /\ job[f] = NoJob
               /\ calls[f] = <<>>
               /\ sub[f] = "idle"
               /\ mon[f] = "idle"

C12_Witness ==
    /\ dry_run
    /\ pc = "done"
    /\ total_files = MaxFiles
\* Status queries a running monitor_job has issued and slept after.
Rounds(f) == elapsed_time[f] \div check_interval

\* C13: a monitor_job that is about to query the status has used less than
\* the budget, so with one sleep of check_interval per unfinished round it
\* issues at most max_wait_time / check_interval queries; a record with
\* status timeout belongs to a monitor_job that returned failure.
C13_PollingStopsAtBudget ==
    \A f \in FileIds :
        /\ mon[f] = "poll" =>
               /\ elapsed_time[f] < max_wait_time
               /\ elapsed_time[f] = Rounds(f) * check_interval
               /\ Rounds(f) + 1 <= max_wait_time \div check_interval
               /\ max_wait_time = MaxWaitTime => Rounds(f) + 1 <= 120
        /\ (Exists(f) /\ job[f].status = "timeout") =>
               mon[f] = "returned_false"

\* The first job has timed out and the second is about to issue its 120th
\* status query.
C13_Witness ==
    /\ max_wait_time = MaxWaitTime
    /\ Exists(1)
    /\ job[1].status = "timeout"
    /\ mon[1] = "returned_false"
    /\ mon[2] = "poll"
    /\ Rounds(2) + 1 = 120

\* C14: no monitor_job is alive after a status query answered ERROR: the
\* query that observes ERROR marks the record failed and returns failure
\* in the same round, without sleeping or querying again.
C14_ErrorFailsAtOnce ==
    \A f \in FileIds :
        /\ mon[f] \in MonRunning => current_status[f] # "ERROR"
        /\ (Exists(f) /\ job[f].status = "failed" /\ mon[f] # "idle") =>
               mon[f] = "returned_false"

C14_Witness ==
    \E f \in FileIds :
        /\ Exists(f)
        /\ job[f].status = "failed"
        /\ job[f].error_message = MsgRemote
        /\ mon[f] = "returned_false"
\* The result kind monitor_job is about to download.
Attempt(f) == download_candidates[cand[f]]

\* One step of file f, as far as the download order is concerned.
DownloadStep(f) ==
    \* the first kind attempted is JSON when the manifest has it
    /\ (mon[f] = "results" /\ mon'[f] = "download") =>
           /\ Attempt(f)' \in result_files'[f]
           /\ "JSON" \in result_files'[f] => Attempt(f)' = "JSON"
    \* while downloading, the task either does not move or goes from JSON
    \* to JSONGZ after the JSON download failed
    /\ (mon[f] = "download" /\ mon'[f] = "download") =>
           \/ cand'[f] = cand[f] /\ job'[f] = job[f]
                 /\ result_files'[f] = result_files[f]
           \/ /\ Attempt(f) = "JSON"
              /\ Attempt(f)' = "JSONGZ"
              /\ "JSONGZ" \in result_files[f]
              /\ job'[f] = job[f]
    \* a successful download ends monitor_job with that kind's file
    /\ (mon[f] = "download" /\ job'[f].result_path # None) =>
           /\ job'[f].result_path = extension(Attempt(f))
           /\ job'[f].status = "completed"
           /\ mon'[f] = "returned_true"
    \* the documented case: JSONGZ alone in the manifest
    /\ (mon[f] = "download" /\ mon'[f] # "download"
            /\ result_files[f] = {"JSONGZ"}) =>
           \/ /\ job'[f].result_path = ".json.gz"
              /\ job'[f].status = "completed"
              /\ mon'[f] = "returned_true"
           \/ /\ job'[f].result_path = None
              /\ job'[f].status = "download_failed"
              /\ mon'[f] = "returned_false"

C16_SuccessOnlyForCompleted ==
    \A f \in FileIds :
        /\ mon[f] = "returned_true" =>
               job[f].status = "completed" /\ job[f].result_path # None
        /\ (mon[f] \in MonFinished /\ job[f].status \in
                {"failed", "timeout", "no_results", "download_failed"}) =>
               mon[f] = "returned_false"

C16_Witness ==
    /\ mon[1] = "returned_true"
    /\ job[1].status = "completed"
    /\ mon[2] = "returned_false"
    /\ job[2].status = "no_results"
\* C17 (as claimed): a record has a complete_time if and only if its status
\* is completed, timeout, download_failed or no_results, or it is failed
\* after a remote ERROR (failed by a monitor_job).
C17_CompleteTimeIffTerminal ==
    \A f \in FileIds :
        Exists(f) =>
            (job[f].complete_time # NoTime <=>
                \/ job[f].status \in
                       {"completed", "timeout", "download_failed", "no_results"}
                \/ job[f].status = "failed" /\ mon[f] = "returned_false")

\* C18: in every step, a submit_time that is set keeps its value and a
\* complete_time that is set keeps its value (no second assignment: every
\* assignment takes a fresh reading of the clock).
C18_TimesSetOnce ==
    [][\A f \in FileIds :
           Exists(f) =>
               /\ job[f].submit_time # NoTime =>
                      job'[f].submit_time = job[f].submit_time
               /\ job[f].complete_time # NoTime =>
                      job'[f].complete_time = job[f].complete_time]_vars

C18_Witness ==
    \E f \in FileIds :
        /\ Exists(f)
        /\ job[f].submit_time # NoTime
        /\ job[f].complete_time # NoTime
        /\ job[f].submit_time < job[f].complete_time
        /\ job[f].status = "download_failed"
        /\ mon[f] = "returned_false"

\* C19 (as claimed): in every reachable state a record's job identifier and
\* secret are both absent or both present.
C19_IdAndSecretTogether ==
    \A f \in FileIds :
        Exists(f) => (job[f].job_id = None <=> job[f].secret = None)

FileIdTag(fid) ==
    LET clean == Prefix(upper(SelectSeq(fid, isalnum)), 5)
    IN IF clean # <<>> THEN clean ELSE <<"B", "A", "K", "T", "A">>

\* C21 (as claimed): when genus and species are present but the genus has
\* fewer than 2 characters or the species fewer than 3, the locus tag is the
\* one derived from the file identifier.
C21_ShortNamesFallBackToFileId ==
    (locus_tag # NoText /\ Truthy(genus) /\ Truthy(species)
         /\ (Len(genus) < 2 \/ Len(species) < 3)) =>
        locus_tag = FileIdTag(file_id)

\* C22: the report's successful bucket is the set of records with status
\* completed, its failed bucket the set of records with status failed,
\* timeout or download_failed; they are disjoint, a record with any other
\* status is in neither, and the total counts every record.
C22_ReportBuckets ==
    \A i \in 1 .. Len(report) :
        /\ report[i].successful =
               {f \in jobs : job[f].status = "completed"}
        /\ report[i].failed =
               {f \in jobs : job[f].status = "failed"
                                 \/ job[f].status = "timeout"
                                 \/ job[f].status = "download_failed"}
        /\ report[i].successful \cap report[i].failed = {}
        /\ \A f \in jobs :
               job[f].status \in {"no_results", "running", "pending"} =>
                   f \notin report[i].successful \cup report[i].failed
        /\ report[i].total = Cardinality(jobs)
        /\ Cardinality(report[i].successful) + Cardinality(report[i].failed)
               <= report[i].total

\* A report whose buckets do not add up to the total: one record completed,
\* the other ended no_results.
C22_Witness ==
    /\ Len(report) = 1
    /\ report[1].total = 2
    /\ Cardinality(report[1].successful) = 1
    /\ report[1].failed = {}
    /\ \E f \in jobs : job[f].status = "no_results"
\* The file's history has an entry for this operation with this outcome.
Called(f, op, ok) ==
    \E i \in 1 .. Len(calls[f]) : calls[f][i] = [op |-> op, ok |-> ok]

\* C23: a failed initialize leaves status failed with "Job initialization
\* failed" and neither upload nor start is called; a failed FASTA upload
\* (a missing upload link included) leaves status failed with "FASTA upload
\* failed" and start is not called; a failed start leaves status failed with
\* "Job start failed"; initialize and start are each called at most once.
C23_SubmissionHardStops ==
    \A f \in FileIds :
        /\ Count(f, "init") <= 1
        /\ Count(f, "upload") <= 1
        /\ Count(f, "start") <= 1
        /\ Called(f, "init", FALSE) =>
               /\ job[f].status = "failed"
               /\ job[f].error_message = MsgInit
               /\ sub[f] = "returned"
               /\ Count(f, "upload") = 0
               /\ Count(f, "start") = 0
        /\ Called(f, "upload", FALSE) =>
               /\ job[f].status = "failed"
               /\ job[f].error_message = MsgUpload
               /\ sub[f] = "returned"
               /\ Count(f, "start") = 0
        /\ Called(f, "start", FALSE) =>
               /\ job[f].status = "failed"
               /\ job[f].error_message = MsgStart
               /\ sub[f] = "returned"
        /\ sub[f] \in {"replicon", "start"} =>
               "fasta" \in upload_links[f] /\ Called(f, "upload", TRUE)
        /\ Count(f, "start") = 1 =>
               Called(f, "init", TRUE) /\ Called(f, "upload", TRUE)

\* One submission stopped at initialize, the other at the FASTA upload.
C23_Witness ==
    /\ Called(1, "init", FALSE)
    /\ Called(2, "upload", FALSE)
    /\ job[2].job_id # None
    /\ sub[1] = "returned"
    /\ sub[2] = "returned"

\* initialize, the FASTA upload and start all succeeded for the file.
AllStepsOk(f) ==
    Called(f, "init", TRUE) /\ Called(f, "upload", TRUE)
        /\ Called(f, "start", TRUE)

\* C24 (as claimed): a submit_job that is over has returned a record; the
\* record (before any monitoring touches it) has status running and a
\* submit_time exactly when initialize, the FASTA upload and start all
\* succeeded, and else status failed with an error_message.
C24_SubmitReturnsRunningOrFailed ==
    \A f \in FileIds :
        (sub[f] \in SubFinished /\ mon[f] \in {"idle", "queued"}) =>
            /\ sub[f] = "returned"
            /\ IF AllStepsOk(f)
               THEN job[f].status = "running" /\ job[f].submit_time # NoTime
               ELSE job[f].status = "failed" /\ job[f].error_message # None
\* One step of file f, as far as the replicon table is concerned.
RepliconStep(f) ==
    \* whatever becomes of the table, the submission goes on to start_job
    /\ (sub[f] = "replicon" /\ sub'[f] # "replicon") =>
           /\ sub'[f] = "start"
           /\ replicon_upload'[f] \in {"no_table", "uploaded", "upload_failed"}
           /\ job'[f] = job[f]
    \* after a table that was not built or not uploaded, start_job is called
    \* (unless the naming derivation raised) and its success gives running
    /\ (sub[f] = "start" /\ sub'[f] # "start"
            /\ replicon_upload[f] \in {"no_table", "upload_failed"}) =>
           /\ sub'[f] = "returned"
           /\ parameters[f] # "bad_genus" =>
                  /\ Len(calls'[f]) = Len(calls[f]) + 1
                  /\ calls'[f][Len(calls'[f])].op = "start"
                  /\ calls'[f][Len(calls'[f])].ok =>
                         job'[f].status = "running"
                  /\ ~calls'[f][Len(calls'[f])].ok =>
                         job'[f].error_message = MsgStart

\* C25: with replicon data supplied, a replicon table that could not be built
\* or uploaded does not fail the submission: start is still called and, if
\* it succeeds, the record is running.
C25_RepliconBestEffort ==
    [][\A f \in FileIds : RepliconStep(f)]_vars

C25_Witness ==
    \E f \in FileIds :
        /\ replicon_df
        /\ sub[f] = "start"
        /\ replicon_upload[f] = "upload_failed"
        /\ job[f].status = "pending"

\* C26 (as claimed): a record's status becomes download_failed only after a
\* download was attempted, i.e. some matching kind was in the manifest; a
\* manifest without any matching kind gives no_results.
C26_NoMatchingKindIsNoResults ==
    [][\A f \in FileIds :
           (Exists(f) /\ job[f].status # "download_failed"
                /\ job'[f].status = "download_failed") =>
               mon[f] = "download"]_vars

\* C27 (as claimed): a record failed by monitor_job (a remote ERROR) has an
\* error_message: the remote detail or "Unknown error".
C27_ErrorMessageNeverEmpty ==
    \A f \in FileIds :
        (Exists(f) /\ job[f].status = "failed" /\ mon[f] = "returned_false") =>
            job[f].error_message # None
\* C28: a monitor_job that has slept has read an answer in every round so
\* far, so a status query without an answer is never followed by a sleep or
\* another query; the monitor_job it ends returned failure with the record
\* as it was (running) and without any manifest call.
C28_MissingStatusFailsAtOnce ==
    \A f \in FileIds :
        /\ (mon[f] = "poll" /\ elapsed_time[f] > 0) =>
               current_status[f] # None
        /\ mon[f] \in {"results", "download"} =>
               current_status[f] = "SUCCESSFUL"
        /\ (mon[f] = "returned_false" /\ job[f].status = "running") =>
               Count(f, "results") = 0

\* A monitor_job ended by an unanswered status query.
C28_Witness ==
    \E f \in FileIds :
        /\ mon[f] = "returned_false"
        /\ job[f].status = "running"
        /\ job[f].job_id # None
        /\ job[f].secret # None

\* C29: whenever a status query is about to be made, every answer that is
\* neither SUCCESSFUL nor ERROR, recognized as in progress or not, takes the
\* sleeping branch; a monitor_job whose last answer was such a state has
\* slept a whole number of intervals, is within its budget and has left the
\* record running.
C29_UnknownStateRepolls ==
    \A f \in FileIds :
        /\ mon[f] = "poll" =>
               \A r \in StatusResponses :
                   (Answered(r) /\ r.status \notin {"SUCCESSFUL", "ERROR"}) =>
                       PollBranch(r.status) = "wait"
        /\ (mon[f] \in MonRunning
                /\ current_status[f] \notin {None, "SUCCESSFUL"}) =>
               /\ mon[f] = "poll"
               /\ job[f].status = "running"
               /\ elapsed_time[f] >= check_interval
               /\ elapsed_time[f] < max_wait_time

\* The last answer was an unrecognized state and monitor_job polls again.
C29_Witness ==
    \E f \in FileIds :
        /\ mon[f] = "poll"
        /\ current_status[f] = "UNKNOWN"
        /\ elapsed_time[f] = check_interval
        /\ job[f].status = "running"

\* C30 (as claimed): a status that is one of completed, failed, timeout,
\* no_results, download_failed never changes again.
C30_TerminalStatusIsFinal ==
    [][\A f \in FileIds :
           (Exists(f) /\ job[f].status \in Terminal) =>
               job'[f].status = job[f].status]_vars

\* C31 (as claimed): a monitor_job exists only for a file whose submission
\* ended with start_job's success, and a file whose submission is over and
\* collected without reaching running is in runner.jobs with status failed
\* and never gets a status, manifest or download call.
C31_OnlyRunningIsMonitored ==
    \A f \in FileIds :
        /\ mon[f] # "idle" => HasStartOk(f)
        /\ (sub[f] \in SubFinished /\ f \notin pending /\ ~HasStartOk(f)) =>
               /\ f \in jobs
               /\ job[f].status = "failed"
               /\ mon[f] = "idle"
               /\ Count(f, "results") = 0

\* C32: a monitor_job is at the manifest or at a download only after its
\* last status query answered SUCCESSFUL (which stamped complete_time); the
\* manifest is fetched at most once per job, from the "results" position
\* only, and a download is attempted only after a usable manifest.
C32_ManifestOnlyAfterSuccessful ==
    \A f \in FileIds :
        /\ mon[f] \in {"results", "download"} =>
               /\ current_status[f] = "SUCCESSFUL"
               /\ job[f].complete_time # NoTime
        /\ Count(f, "results") <= 1
        /\ mon[f] \in {"idle", "queued", "poll", "results"} =>
               Count(f, "results") = 0
        /\ Count(f, "results") = 1 => job[f].complete_time # NoTime
        /\ mon[f] = "download" => Called(f, "results", TRUE)

\* The manifest has been fetched once and a download is about to be tried.
C32_Witness ==
    \E f \in FileIds :
        /\ mon[f] = "download"
        /\ current_status[f] = "SUCCESSFUL"
        /\ Count(f, "results") = 1
        /\ elapsed_time[f] = check_interval

\* C33: a record carries a submit_time exactly when it carries a remote job
\* identifier: none before init_job has answered and none after a failed
\* init_job, one from the successful init_job on, so before any upload and
\* on every record that failed at the FASTA upload or at start.
C33_SubmitTimeIffJobId ==
    \A f \in FileIds :
        Exists(f) =>
            /\ job[f].submit_time # NoTime <=> job[f].job_id # None
            /\ job[f].submit_time # NoTime <=> Called(f, "init", TRUE)
            /\ sub[f] = "init" => job[f].submit_time = NoTime
            /\ Called(f, "init", FALSE) => job[f].submit_time = NoTime
            /\ Count(f, "upload") > 0 => job[f].submit_time # NoTime
            /\ Count(f, "start") > 0 => job[f].submit_time # NoTime

\* Both submissions are over: the first failed at the FASTA upload and has a
\* submit_time, the second failed at init_job and has none.
C33_Witness ==
    /\ sub[1] = "returned"
    /\ sub[2] = "returned"
    /\ job[1].error_message = MsgUpload
    /\ job[1].submit_time # NoTime
    /\ job[2].error_message = MsgInit
    /\ job[2].submit_time = NoTime

\* One step of run_batch, as far as the inter-batch pause is concerned.
PauseStep ==
    \* a pause is one sleep, taken when the pool of the batch just processed
    \* has drained, every task of the batches so far is over and files remain
    /\ pauses' # pauses =>
           /\ pauses' = pauses + 1
           /\ pauses' = Len(batches)
           /\ PoolDrained
           /\ \A f \in file_ids : sub[f] # "idle" => Drained(f)
           /\ \E f \in file_ids : sub[f] = "idle"
    \* a batch other than the first begins right after its pause
    /\ batches' # batches =>
           /\ Len(batches') = Len(batches) + 1
           /\ pauses = Len(batches)
    \* the first task of a batch is dispatched after the pause before it
    /\ \A f \in file_ids :
           (sub[f] = "idle" /\ sub'[f] # "idle") => pauses = BatchOf(f)
    \* the report follows the last batch without a pause
    /\ report' # report =>
           pauses = (IF batches = <<>> THEN 0 ELSE Len(batches) - 1)

\* C34: in a live run a pause is taken between every two consecutive
\* batches, after the earlier one's tasks have all ended and before the
\* later one's first submission is dispatched; k batches take k-1 pauses.
C34_PauseBetweenBatches ==
    [][PauseStep]_vars

\* The run is over: two batches, one pause, and the first batch's job was
\* monitored.
C34_Witness ==
    /\ pc = "done"
    /\ Len(batches) = 2
    /\ pauses = 1
    /\ mon[1] \in MonFinished
    /\ Len(report) = 1

\* C35: when no thread stops for ever, every monitor_job that has started
\* ends, every batch whose dispatch has begun is left by the main thread,
\* and a live run_batch ends with the final report written.
C35_EverythingTerminates ==
    /\ \A f \in 1 .. 2 : (mon[f] \in MonRunning) ~> (mon[f] \in MonFinished)
    /\ \A k \in 1 .. 2 :
           (Len(batches) = k /\ pc = "submit")
               ~> (Len(batches) = k /\ pc \in {"pause", "loop"})
    /\ (pc = "start" /\ ~dry_run) ~> (pc = "done" /\ Len(report) = 1)

\* A live run that is over: the first job used up its budget, the second
\* was downloaded.
C35_Witness ==
    /\ pc = "done"
    /\ Len(report) = 1
    /\ mon[1] = "returned_false"
    /\ job[1].status = "timeout"
    /\ mon[2] = "returned_true"

\* C36: every record's retry_count is 0 in every state, and for every file
\* submit_job is started at most once and init_job called at most once,
\* also after the job has failed or timed out.
C36_NoRetry ==
    \A f \in FileIds :
        /\ Exists(f) => job[f].retry_count = 0
        /\ Count(f, "submit_job") <= 1
        /\ Count(f, "init") <= 1
        /\ Count(f, "monitor_job") <= 1
        /\ (Exists(f) /\ job[f].status \in Terminal \ {"completed"}
                /\ sub[f] = "returned") =>
               mon[f] \in {"idle", "returned_false"}

\* The run is over; the first job failed at init_job, the second timed out,
\* and neither was tried again.
C36_Witness ==
    /\ pc = "done"
    /\ Exists(1)
    /\ Called(1, "init", FALSE)
    /\ Exists(2)
    /\ job[2].status = "timeout"
    /\ Count(1, "init") = 1
    /\ Count(2, "init") = 1
    /\ job[1].retry_count = 0
    /\ job[2].retry_count = 0

\* Positions of the alphanumeric characters of a text.
AlnumAt(text) == {i \in 1 .. Len(text) : isalnum(text[i])}

\* The k-th smallest member of a set of numbers.
Kth(S, k) == CHOOSE x \in S : Cardinality({y \in S : y < x}) = k - 1

\* C37: when genus or species is absent (None or empty), the locus tag is
\* BAKTA if the file identifier has no alphanumeric character, and else its
\* k-th character is the upper-cased k-th alphanumeric character of the
\* file identifier, for the first five of them.
C37_FallbackTagFromFileId ==
    (locus_tag # NoText /\ (~Truthy(genus) \/ ~Truthy(species))) =>
        IF AlnumAt(file_id) = {}
        THEN locus_tag = <<"B", "A", "K", "T", "A">>
        ELSE /\ Len(locus_tag) =
                    (IF Cardinality(AlnumAt(file_id)) < 5
                     THEN Cardinality(AlnumAt(file_id)) ELSE 5)
             /\ \A k \in 1 .. Len(locus_tag) :
                    locus_tag[k] = upper_char(file_id[Kth(AlnumAt(file_id), k)])

\* The species is missing and the file identifier p_01.fas gives P01FA.
C37_Witness ==
    /\ genus = Escherichia
    /\ species = NoText
    /\ file_id = <<"p", "_", "0", "1", ".", "f", "a", "s">>
    /\ locus_tag = <<"P", "0", "1", "F", "A">>

\* One step of file f, as far as its error_message is concerned.
ErrorDetailStep(f) ==
    Exists(f)' =>
        \* no detail on a record that is pending, running or completed
        /\ job'[f].status \in {"pending", "running", "completed"} =>
               job'[f].error_message = None
        \* a detail is written only by a step that makes the record failed
        /\ (job'[f].error_message # None
                /\ (Exists(f) => job[f].error_message # job'[f].error_message)) =>
               /\ Exists(f)
               /\ job[f].status # "failed"
               /\ job'[f].status = "failed"

\* C38: in every state a record with status pending, running or completed
\* has no error_message, and error_message is written only in a step that
\* also sets the status to failed.
C38_ErrorDetailOnlyOnFailure ==
    [][\A f \in FileIds : ErrorDetailStep(f)]_vars

\* The first record failed at start_job, the second by a remote ERROR with
\* its detail, and the run went on to its end.
C38_Witness ==
    /\ pc = "done"
    /\ mon[1] = "idle"
    /\ Exists(1)
    /\ job[1].error_message = MsgStart
    /\ mon[2] = "returned_false"
    /\ job[2].error_message = MsgRemote
    /\ job[2].status = "failed"

\* C39: every record with status completed has a submit_time and a later
\* complete_time, in every state and so when generate_final_report computes
\* complete_time - submit_time for the successful bucket; the report of a
\* live run is therefore written without raising.
C39_SuccessfulHaveBothTimes ==
    /\ \A f \in FileIds :
           (Exists(f) /\ job[f].status = "completed") =>
               /\ job[f].submit_time # NoTime
               /\ job[f].complete_time # NoTime
               /\ job[f].submit_time < job[f].complete_time
    /\ \A i \in 1 .. Len(report) : \A f \in report[i].successful :
           job[f].submit_time # NoTime /\ job[f].complete_time # NoTime
    /\ (pc = "loop" /\ batch_start >= total_files) =>
           \A f \in successful :
               job[f].submit_time # NoTime /\ job[f].complete_time # NoTime
    /\ pc = "raised" => dry_run

\* The report has been written with both records in the successful bucket.
C39_Witness ==
    /\ pc = "done"
    /\ Len(report) = 1
    /\ report[1].successful = {1, 2}
    /\ job[1].complete_time > job[1].submit_time
    /\ job[2].complete_time > job[2].submit_time

\* One step of run_batch, as far as the final report is concerned.
ReportStep ==
    \* the report is written by a live run only, once, as its last step,
    \* when every batch has been begun and every task has ended
    /\ report' # report =>
           /\ ~dry_run
           /\ report = <<>>
           /\ Len(report') = 1
           /\ pc' = "done"
           /\ PoolDrained
           /\ Len(batches) = CeilDiv(total_files, batch_size)
           /\ \A f \in file_ids : Drained(f)
    \* a live run does not end without it, an empty one included
    /\ (pc' = "done" /\ ~dry_run) => Len(report') = 1
    \* a dry run leaves none
    /\ dry_run => report' = <<>>

\* C40: generate_final_report runs exactly once in a live run, after the
\* tasks of the last batch have all ended (at once when there is no input
\* file), and never in a dry run.
C40_ReportOncePerLiveRun ==
    [][ReportStep]_vars

\* A live run over an empty parameter set has written its report.
C40_Witness ==
    /\ ~dry_run
    /\ total_files = 0
    /\ pc = "done"
    /\ report = <<[total |-> 0, successful |-> {}, failed |-> {}]>>
====
